---- MODULE Spec2Model ----
(***************************************************************************)
(* Model of kiss_ai_stack.core.tools.tool.Tool: a dispatcher over two      *)
(* injected collaborators, an AI client (generate_answer) and an optional  *)
(* vector database (push, retrieve).  Each handler of the class is one     *)
(* action; what the collaborators return or raise is drawn with \E.        *)
(*                                                                         *)
(* Python values are encoded as follows.  An Optional value is a sequence  *)
(* of length at most one (None is <<>>, a value x is <<x>>).  A list is a  *)
(* sequence.  A dict is a function over its keys.  An exception is a       *)
(* record [type, msg] whose msg is the token sequence str(e) is made of.   *)
(* An f-string is the token sequence of its literal and interpolated       *)
(* parts, so that one can tell which data reached a log line.              *)
(***************************************************************************)
EXTENDS Integers, Sequences, FiniteSets, TLC

VARIABLES
    constructed,   \* Tool.__init__ has run
    tool_kind,     \* self.__tool_kind
    ai_client,     \* self.__ai_client
    vector_db,     \* self.__vector_db (Optional)
    log,           \* every record handed to LOG, oldest first
    calls,         \* collaborator invocations made by the latest handler call
    last,          \* the latest handler call: its arguments and how it ended
    prev,          \* the latest successful process_query before `last`
    ncalls         \* number of store_docs / process_query calls so far

vars == <<constructed, tool_kind, ai_client, vector_db, log, calls, last, prev, ncalls>>

----------------------------------------------------------------------------
(* Bounds of the exploration *)

MaxCalls == 2
MaxDocs == 2
MaxChunks == 2

----------------------------------------------------------------------------
(* Values *)

None == <<>>
Some(x) == <<x>>

SeqsUpTo(S, n) == UNION {[1..k -> S] : k \in 0..n}

ToolKind == {"RAG", "PROMPT"}

Queries == {"q1", "q2"}
DocTexts == {"d1", "d2"}
Metas == {"m1", "m2"}
Answers == {"a1", "a2"}
IdLists == {<<"id1", "id2">>, <<"id2">>}

\* everything a caller or a collaborator regards as content
ContentTokens == Queries \cup DocTexts \cup Metas \cup Answers

DocumentLists == SeqsUpTo(DocTexts, MaxDocs)
MetadataLists == {<<>>, <<"m1">>, <<"m2", "m1">>}

Exc(type, msg) == [type |-> type, msg |-> msg]

\* str(e)
Str(e) == e.msg

Raises(e) == [raised |-> Some(e), ret |-> None]
Returns(v) == [raised |-> None, ret |-> Some(v)]

----------------------------------------------------------------------------
(* The collaborators: what one invocation may do *)

\* VectorDBAbc.push(documents, metadata_list)
PushOutcomes(documents, metadata_list) ==
    {Returns(ids) : ids \in IdLists}
    \cup {Raises(Exc("ConnectionError", <<"connection refused">>))}
    \cup {Raises(Exc("ValueError", <<"Expected document to be a str, got ", documents[i]>>)) :
            i \in DOMAIN documents}
    \cup {Raises(Exc("ValueError", <<"Expected metadata to be a dict, got ", metadata_list[i]>>)) :
            i \in DOMAIN metadata_list \cap {1}}

ChunkLists == SeqsUpTo(DocTexts, MaxChunks)

\* the value under 'documents': a list of lists of chunks
RetrievedDocuments ==
    {<<>>}
    \cup {<<c>> : c \in ChunkLists}
    \cup {<<<<"d1">>, <<"d2">>>>}

\* the values under 'metadatas' and 'distances'
RetrievedScores == {<<<<"m1">>, <<1>>>>, <<<<"m2", "m1">>, <<2, 1>>>>}

ChunkResults ==
    {[documents |-> d, metadatas |-> s[1], distances |-> s[2]] :
        d \in RetrievedDocuments, s \in RetrievedScores}
    \cup {[documents |-> <<<<"d1">>>>, distances |-> <<1>>]}

\* VectorDBAbc.retrieve(query)
RetrieveOutcomes(query) ==
    {Returns(r) : r \in ChunkResults}
    \cup {Raises(Exc("ConnectionError", <<"connection refused">>)),
          Raises(Exc("ValueError", <<"cannot embed query: ", query>>))}

\* AIClientAbc.generate_answer(query, chunks=None)
GenOutcomes(query) ==
    {Returns(a) : a \in Answers}
    \cup {Raises(Exc("TimeoutError", <<"request timed out">>)),
          Raises(Exc("ValueError", <<"prompt rejected: ", query>>))}

PushCall(documents, metadata_list, out) ==
    [fn |-> "push", documents |-> documents, metadata_list |-> metadata_list, out |-> out]
RetrieveCall(query, out) ==
    [fn |-> "retrieve", query |-> query, out |-> out]
GenCall(query, chunks, out) ==
    [fn |-> "generate_answer", query |-> query, chunks |-> chunks, out |-> out]

----------------------------------------------------------------------------
(* Logging and the response value *)

Info(msg) == [level |-> "info", msg |-> msg]
Debug(msg) == [level |-> "debug", msg |-> msg]
Error(msg) == [level |-> "error", msg |-> msg]

\* ToolResponse(answer=..., docs=..., metadata=..., distances=...); a field
\* that is not passed keeps its default, None
ToolResponse(answer, docs, metadata, distances) ==
    [answer |-> answer, docs |-> docs, metadata |-> metadata, distances |-> distances]

NoCall == [op |-> "none", query |-> None, documents |-> None, metadata_list |-> None,
           status |-> "none", raised |-> None, ret |-> None]

----------------------------------------------------------------------------
Init ==
    /\ constructed = FALSE
    /\ tool_kind = "unset"
    /\ ai_client = None
    /\ vector_db = None
    /\ log = <<>>
    /\ calls = <<>>
    /\ last = NoCall
    /\ prev = None
    /\ ncalls = 0

\* Tool.__init__(tool_kind, ai_client, vector_db=None)
Tool_init(kind, client, db) ==
    /\ ~constructed
    /\ constructed' = TRUE
    /\ tool_kind' = kind
    /\ ai_client' = client
    /\ vector_db' = db
    /\ log' = Append(log, Info(<<"Tool :: Tool initialized with kind: ", kind>>))
    /\ last' = [NoCall EXCEPT !.op = "__init__", !.status = "returned"]
    /\ UNCHANGED <<calls, prev, ncalls>>

\* the test `if self.__vector_db:`
Truthy(x) == x # None

Reverse(s) == [i \in 1..Len(s) |-> s[Len(s) + 1 - i]]

\* store_try with the documents handed to push in reverse order
store_try_reversed(documents, metadata_list, po) ==
    LET entry == Info(<<"Tool :: Storing ", ToString(Len(documents)),
                        " documents in the vector database.">>)
        call == PushCall(Reverse(documents), metadata_list, po)
    IN  IF po.raised = None
        THEN [calls |-> <<call>>,
              log |-> <<entry, Info(<<"Tool :: Documents successfully stored. IDs generated.">>)>>,
              raised |-> None,
              ret |-> po.ret]
        ELSE [calls |-> <<call>>,
              log |-> <<entry,
                        Error(<<"Tool :: Failed to store documents: ">> \o Str(po.raised[1]))>>,
              raised |-> po.raised,
              ret |-> None]

\* store_try with one more attempt after a failed push
store_try_retry(documents, metadata_list, po) ==
    LET entry == Info(<<"Tool :: Storing ", ToString(Len(documents)),
                        " documents in the vector database.">>)
        call == PushCall(documents, metadata_list, po)
    IN  IF po.raised = None
        THEN [calls |-> <<call>>,
              log |-> <<entry, Info(<<"Tool :: Documents successfully stored. IDs generated.">>)>>,
              raised |-> None,
              ret |-> po.ret]
        ELSE [calls |-> <<call, call>>,
              log |-> <<entry,
                        Error(<<"Tool :: Failed to store documents: ">> \o Str(po.raised[1]))>>,
              raised |-> po.raised,
              ret |-> None]

\* store_docs, the branch taken when the vector database is set; po is what
\* push does in this call
store_try(documents, metadata_list, po) ==
    LET entry == Info(<<"Tool :: Storing ", ToString(Len(documents)),
                        " documents in the vector database.">>)
        call == PushCall(documents, metadata_list, po)
    IN  IF po.raised = None
        THEN [calls |-> <<call>>,
              log |-> <<entry, Info(<<"Tool :: Documents successfully stored. IDs generated.">>)>>,
              raised |-> None,
              ret |-> po.ret]
        ELSE [calls |-> <<call>>,
              log |-> <<entry,
                        Error(<<"Tool :: Failed to store documents: ">> \o Str(po.raised[1]))>>,
              raised |-> po.raised,
              ret |-> None]

\* store_else raising the IOError that the docstring of store_docs announces
store_else_raises ==
    [calls |-> <<>>,
     log |-> <<Error(<<"Tool :: Vector DB has not been initialized.">>)>>,
     raised |-> Some(Exc("IOError", <<"Tool :: Vector DB has not been initialized.">>)),
     ret |-> None]

\* store_docs, the branch taken when the vector database is not set
store_else ==
    [calls |-> <<>>,
     log |-> <<Error(<<"Tool :: Vector DB has not been initialized.">>)>>,
     raised |-> None,
     ret |-> None]

\* the successful process_query call that `last` describes, if it is one
Shift ==
    IF last.op = "process_query" /\ last.status = "returned"
    THEN Some([query |-> last.query[1], answer |-> last.ret[1].answer])
    ELSE prev

Finish(op, query, documents, metadata_list, eff) ==
    [op |-> op, query |-> query, documents |-> documents, metadata_list |-> metadata_list,
     status |-> IF eff.raised = None THEN "returned" ELSE "raised",
     raised |-> eff.raised, ret |-> eff.ret]

\* Tool.store_docs(documents, metadata_list)
store_docs(documents, metadata_list) ==
    /\ constructed
    /\ ncalls < MaxCalls
    /\ \E po \in PushOutcomes(documents, metadata_list) :
         LET eff == IF Truthy(vector_db)
                    THEN store_try(documents, metadata_list, po)
                    ELSE store_else
         IN  /\ calls' = eff.calls
             /\ log' = log \o eff.log
             /\ last' = Finish("store_docs", None, Some(documents), Some(metadata_list), eff)
    /\ prev' = Shift
    /\ ncalls' = ncalls + 1
    /\ UNCHANGED <<constructed, tool_kind, ai_client, vector_db>>

\* Chunks taking the last sub-list instead of the first
Chunks_last(chunk_result) == chunk_result.documents[Len(chunk_result.documents)]

\* chunk_result['documents'][0]
Chunks(chunk_result) == chunk_result.documents[1]

\* rag_branch answering without context when retrieve raises
rag_branch_fallback(query, ro, go) ==
    LET l1 == Info(<<"Tool :: Performing retrieval-augmented generation (RAG) for query processing.">>)
        l2 == Debug(<<"Tool :: Retrieved chunk metadata, not logging content.">>)
        l3 == Info(<<"Tool :: Answer generated by AI client, not logging content.">>)
        retrieve == RetrieveCall(query, ro)
    IN  IF vector_db = None
        THEN [calls |-> <<>>, log |-> <<l1>>, ret |-> None,
              raised |-> Some(Exc("AttributeError",
                                  <<"'NoneType' object has no attribute 'retrieve'">>))]
        ELSE IF ro.raised # None
        THEN [calls |-> <<retrieve, GenCall(query, None, go)>>, log |-> <<l1>>,
              raised |-> go.raised,
              ret |-> IF go.raised # None THEN None
                      ELSE Some(ToolResponse(go.ret[1], None, None, None))]
        ELSE LET chunk_result == ro.ret[1] IN
        IF Len(chunk_result.documents) = 0
        THEN [calls |-> <<retrieve>>, log |-> <<l1>>, ret |-> None,
              raised |-> Some(Exc("IndexError", <<"list index out of range">>))]
        ELSE LET chunks == Chunks(chunk_result)
                 generate == GenCall(query, Some(chunks), go)
        IN
        IF go.raised # None
        THEN [calls |-> <<retrieve, generate>>, log |-> <<l1, l2>>, ret |-> None,
              raised |-> go.raised]
        ELSE IF "metadatas" \notin DOMAIN chunk_result
        THEN [calls |-> <<retrieve, generate>>, log |-> <<l1, l2, l3>>, ret |-> None,
              raised |-> Some(Exc("KeyError", <<"'metadatas'">>))]
        ELSE [calls |-> <<retrieve, generate>>, log |-> <<l1, l2, l3>>, raised |-> None,
              ret |-> Some(ToolResponse(go.ret[1], Some(chunks),
                                        Some(chunk_result.metadatas),
                                        Some(chunk_result.distances)))]

\* rag_branch answering without context when no vector database is set
rag_branch_degrade(query, ro, go) ==
    LET l1 == Info(<<"Tool :: Performing retrieval-augmented generation (RAG) for query processing.">>)
        l2 == Debug(<<"Tool :: Retrieved chunk metadata, not logging content.">>)
        l3 == Info(<<"Tool :: Answer generated by AI client, not logging content.">>)
        retrieve == RetrieveCall(query, ro)
    IN  IF vector_db = None
        THEN [calls |-> <<GenCall(query, None, go)>>, log |-> <<l1>>,
              raised |-> go.raised,
              ret |-> IF go.raised # None THEN None
                      ELSE Some(ToolResponse(go.ret[1], None, None, None))]
        ELSE IF ro.raised # None
        THEN [calls |-> <<retrieve>>, log |-> <<l1>>, ret |-> None, raised |-> ro.raised]
        ELSE LET chunk_result == ro.ret[1] IN
        IF Len(chunk_result.documents) = 0
        THEN [calls |-> <<retrieve>>, log |-> <<l1>>, ret |-> None,
              raised |-> Some(Exc("IndexError", <<"list index out of range">>))]
        ELSE LET chunks == Chunks(chunk_result)
                 generate == GenCall(query, Some(chunks), go)
        IN
        IF go.raised # None
        THEN [calls |-> <<retrieve, generate>>, log |-> <<l1, l2>>, ret |-> None,
              raised |-> go.raised]
        ELSE IF "metadatas" \notin DOMAIN chunk_result
        THEN [calls |-> <<retrieve, generate>>, log |-> <<l1, l2, l3>>, ret |-> None,
              raised |-> Some(Exc("KeyError", <<"'metadatas'">>))]
        ELSE [calls |-> <<retrieve, generate>>, log |-> <<l1, l2, l3>>, raised |-> None,
              ret |-> Some(ToolResponse(go.ret[1], Some(chunks),
                                        Some(chunk_result.metadatas),
                                        Some(chunk_result.distances)))]

\* process_query, the branch for ToolKind.RAG; ro is what retrieve does in
\* this call and go what generate_answer does
rag_branch(query, ro, go) ==
    LET l1 == Info(<<"Tool :: Performing retrieval-augmented generation (RAG) for query processing.">>)
        l2 == Debug(<<"Tool :: Retrieved chunk metadata, not logging content.">>)
        l3 == Info(<<"Tool :: Answer generated by AI client, not logging content.">>)
        retrieve == RetrieveCall(query, ro)
    IN  IF vector_db = None
        THEN [calls |-> <<>>, log |-> <<l1>>, ret |-> None,
              raised |-> Some(Exc("AttributeError",
                                  <<"'NoneType' object has no attribute 'retrieve'">>))]
        ELSE IF ro.raised # None
        THEN [calls |-> <<retrieve>>, log |-> <<l1>>, ret |-> None, raised |-> ro.raised]
        ELSE LET chunk_result == ro.ret[1] IN
        IF Len(chunk_result.documents) = 0
        THEN [calls |-> <<retrieve>>, log |-> <<l1>>, ret |-> None,
              raised |-> Some(Exc("IndexError", <<"list index out of range">>))]
        ELSE LET chunks == Chunks(chunk_result)
                 generate == GenCall(query, Some(chunks), go)
        IN
        IF go.raised # None
        THEN [calls |-> <<retrieve, generate>>, log |-> <<l1, l2>>, ret |-> None,
              raised |-> go.raised]
        ELSE IF "metadatas" \notin DOMAIN chunk_result
        THEN [calls |-> <<retrieve, generate>>, log |-> <<l1, l2, l3>>, ret |-> None,
              raised |-> Some(Exc("KeyError", <<"'metadatas'">>))]
        ELSE [calls |-> <<retrieve, generate>>, log |-> <<l1, l2, l3>>, raised |-> None,
              ret |-> Some(ToolResponse(go.ret[1], Some(chunks),
                                        Some(chunk_result.metadatas),
                                        Some(chunk_result.distances)))]

\* prompt_branch handing an empty context to the AI client and to the response
prompt_branch_context(query, go) ==
    LET l1 == Info(<<"Tool :: Using direct prompt mode for query processing.">>)
        l3 == Info(<<"Tool :: Answer generated by AI client, ****">>)
        generate == GenCall(query, Some(<<>>), go)
    IN  IF go.raised # None
        THEN [calls |-> <<generate>>, log |-> <<l1>>, ret |-> None, raised |-> go.raised]
        ELSE [calls |-> <<generate>>, log |-> <<l1, l3>>, raised |-> None,
              ret |-> Some(ToolResponse(go.ret[1], Some(<<>>), None, None))]

\* process_query, the branch for every other tool kind
prompt_branch(query, go) ==
    LET l1 == Info(<<"Tool :: Using direct prompt mode for query processing.">>)
        l3 == Info(<<"Tool :: Answer generated by AI client, ****">>)
        generate == GenCall(query, None, go)
    IN  IF go.raised # None
        THEN [calls |-> <<generate>>, log |-> <<l1>>, ret |-> None, raised |-> go.raised]
        ELSE [calls |-> <<generate>>, log |-> <<l1, l3>>, raised |-> None,
              ret |-> Some(ToolResponse(go.ret[1], None, None, None))]

\* process_try answering a repeated query from the previous response
process_try_memo(query, ro, go) ==
    IF last.op = "process_query" /\ last.status = "returned" /\ last.query = Some(query)
    THEN [calls |-> <<>>, log |-> <<>>, raised |-> None, ret |-> last.ret]
    ELSE IF tool_kind = "RAG"
    THEN rag_branch(query, ro, go)
    ELSE prompt_branch(query, go)

\* the try block of process_query: the dispatch on the tool kind
process_try(query, ro, go) ==
    IF tool_kind = "RAG"
    THEN rag_branch(query, ro, go)
    ELSE prompt_branch(query, go)

\* process_except logging the error and returning None instead of raising
process_except_swallow(body) ==
    IF body.raised = None
    THEN body
    ELSE [body EXCEPT !.log = Append(body.log, Error(<<"Tool :: Failed to process query">>)),
                      !.raised = None,
                      !.ret = None]

\* the handler `except Exception as e` of process_query, applied to what the
\* try block did
process_except(body) ==
    IF body.raised = None
    THEN body
    ELSE [body EXCEPT !.log = Append(body.log, Error(<<"Tool :: Failed to process query">>)),
                      !.ret = None]

\* Tool.process_query(query)
process_query(query) ==
    /\ constructed
    /\ ncalls < MaxCalls
    /\ \E ro \in RetrieveOutcomes(query), go \in GenOutcomes(query) :
         LET entry == Info(<<"Processing query with tool kind: ", tool_kind>>)
             eff == process_except(process_try(query, ro, go))
         IN  /\ calls' = eff.calls
             /\ log' = log \o <<entry>> \o eff.log
             /\ last' = Finish("process_query", Some(query), None, None, eff)
    /\ prev' = Shift
    /\ ncalls' = ncalls + 1
    /\ UNCHANGED <<constructed, tool_kind, ai_client, vector_db>>

Next ==
    \/ \E kind \in ToolKind, db \in {None, Some("VectorDB")} :
         Tool_init(kind, Some("AIClient"), db)
    \/ \E documents \in DocumentLists, metadata_list \in MetadataLists :
         store_docs(documents, metadata_list)
    \/ \E query \in Queries : process_query(query)

Spec == Init /\ [][Next]_vars

----------------------------------------------------------------------------
(* What the latest handler call did *)

IsQuery == last.op = "process_query"
IsStore == last.op = "store_docs"
Fns == [i \in DOMAIN calls |-> calls[i].fn]
LastLog == log[Len(log)]

\* the call retrieved a result that has the three keys
Retrieved ==
    /\ calls # <<>>
    /\ calls[1].fn = "retrieve"
    /\ calls[1].out.raised = None
    /\ DOMAIN calls[1].out.ret[1] = {"documents", "metadatas", "distances"}

\* C1: on a RAG tool with a vector database, whenever retrieve returned a
\* result with documents, metadatas and distances and generate_answer
\* succeeded, the call made was generate_answer(query, chunks) with chunks the
\* first element of documents, and process_query returned the response made
\* of that answer, those chunks and the result's metadatas and distances.
C1_RagResponse ==
    (/\ IsQuery /\ tool_kind = "RAG" /\ vector_db # None
     /\ Retrieved
     /\ \E j \in DOMAIN calls :
            calls[j].fn = "generate_answer" /\ calls[j].out.raised = None)
    => LET result == calls[1].out.ret[1]
           chunks == result.documents[1]
       IN  /\ Len(calls) = 2
           /\ calls[1].query = last.query[1]
           /\ calls[2].fn = "generate_answer"
           /\ calls[2].query = last.query[1]
           /\ calls[2].chunks = Some(chunks)
           /\ last.status = "returned"
           /\ last.ret = Some([answer |-> calls[2].out.ret[1],
                               docs |-> Some(chunks),
                               metadata |-> Some(result.metadatas),
                               distances |-> Some(result.distances)])

C1_Witness ==
    /\ IsQuery /\ tool_kind = "RAG" /\ last.status = "returned"
    /\ Retrieved
    /\ Len(calls[1].out.ret[1].documents) = 2
    /\ calls[1].out.ret[1].documents[1] # calls[1].out.ret[1].documents[2]
    /\ Len(calls[1].out.ret[1].documents[1]) = 1

\* C2: on a PROMPT tool, with or without a vector database, process_query
\* makes exactly one collaborator call, generate_answer(query) without
\* context, and when that call returns an answer it returns the response
\* that holds this answer and nothing else.
C2_PromptResponse ==
    (IsQuery /\ tool_kind = "PROMPT")
    => /\ Len(calls) = 1
       /\ calls[1].fn = "generate_answer"
       /\ calls[1].query = last.query[1]
       /\ calls[1].chunks = None
       /\ calls[1].out.raised = None
            => /\ last.status = "returned"
               /\ last.ret = Some([answer |-> calls[1].out.ret[1], docs |-> None,
                                   metadata |-> None, distances |-> None])

C2_Witness ==
    /\ IsQuery /\ tool_kind = "PROMPT" /\ vector_db # None
    /\ last.status = "returned"
    /\ last.ret[1].answer = "a2"

\* C3: with a vector database, store_docs calls push exactly once, with the
\* two sequences it was given, and returns the identifiers push returned.
C3_StoreForwards ==
    (IsStore /\ vector_db # None)
    => /\ Len(calls) = 1
       /\ calls[1].fn = "push"
       /\ calls[1].documents = last.documents[1]
       /\ calls[1].metadata_list = last.metadata_list[1]
       /\ calls[1].out.raised = None
            => /\ last.status = "returned"
               /\ last.ret = calls[1].out.ret

C3_Witness ==
    /\ IsStore /\ vector_db # None /\ last.status = "returned"
    /\ last.documents = Some(<<"d1", "d2">>)
    /\ last.metadata_list = Some(<<"m2", "m1">>)
    /\ last.ret = Some(<<"id1", "id2">>)

C5_RetrievalFailure ==
    (/\ IsQuery /\ tool_kind = "RAG"
     /\ \E i \in DOMAIN calls : calls[i].fn = "retrieve" /\ calls[i].out.raised # None)
    => /\ last.status = "raised"
       /\ last.raised = calls[1].out.raised
       /\ last.ret = None
       /\ \A i \in DOMAIN calls : calls[i].fn # "generate_answer"

C5_Witness ==
    /\ IsQuery /\ tool_kind = "RAG" /\ last.query = Some("q2")
    /\ Fns = <<"retrieve">>
    /\ calls[1].out.raised = Some(Exc("ValueError", <<"cannot embed query: ", "q2">>))
    /\ last.raised = calls[1].out.raised

\* C6: in either branch, when generate_answer raises, process_query logs the
\* failure, raises that same error and returns no response.
C6_GenerationFailure ==
    (/\ IsQuery
     /\ \E i \in DOMAIN calls : calls[i].fn = "generate_answer" /\ calls[i].out.raised # None)
    => /\ last.status = "raised"
       /\ last.raised = calls[Len(calls)].out.raised
       /\ calls[Len(calls)].fn = "generate_answer"
       /\ last.ret = None
       /\ LastLog = Error(<<"Tool :: Failed to process query">>)

C6_Witness ==
    /\ IsQuery /\ tool_kind = "RAG"
    /\ Fns = <<"retrieve", "generate_answer">>
    /\ calls[2].out.raised = Some(Exc("TimeoutError", <<"request timed out">>))
    /\ last.raised = calls[2].out.raised

\* C7: when push raises, store_docs has called push exactly once, logs the
\* failure, raises that same error and returns no identifiers.
C7_StorageFailure ==
    (/\ IsStore
     /\ \E i \in DOMAIN calls : calls[i].fn = "push" /\ calls[i].out.raised # None)
    => /\ Len(calls) = 1
       /\ last.status = "raised"
       /\ last.raised = calls[1].out.raised
       /\ last.ret = None
       /\ LastLog.level = "error"
       /\ LastLog.msg[1] = "Tool :: Failed to store documents: "

C7_Witness ==
    /\ IsStore /\ Fns = <<"push">>
    /\ calls[1].out.raised = Some(Exc("ConnectionError", <<"connection refused">>))
    /\ last.raised = calls[1].out.raised
    /\ last.documents = Some(<<"d2", "d1">>)

\* C8: no record handed to LOG contains query text, document content,
\* metadata content, chunk content or answer content.
C8_NoContentInLog ==
    \A i \in DOMAIN log : \A j \in DOMAIN log[i].msg : log[i].msg[j] \notin ContentTokens

ExpectedFns ==
    IF tool_kind = "RAG" THEN <<"retrieve", "generate_answer">> ELSE <<"generate_answer">>

\* the response is made of what the collaborators returned in this call
BuiltFromThisCall ==
    /\ \A i \in DOMAIN calls : calls[i].query = last.query[1] /\ calls[i].out.raised = None
    /\ last.ret[1].answer = calls[Len(calls)].out.ret[1]
    /\ IF tool_kind = "RAG"
       THEN /\ last.ret[1].docs = Some(calls[1].out.ret[1].documents[1])
            /\ last.ret[1].metadata = Some(calls[1].out.ret[1].metadatas)
            /\ last.ret[1].distances = Some(calls[1].out.ret[1].distances)
       ELSE /\ last.ret[1].docs = None
            /\ last.ret[1].metadata = None
            /\ last.ret[1].distances = None

\* C10, as stated: every process_query call, whatever its outcome, calls
\* retrieve once and then generate_answer once on a RAG tool, generate_answer
\* once on a PROMPT tool, and a response is made of what these calls
\* returned.
C10_EveryCallInvokesAll ==
    IsQuery => /\ Fns = ExpectedFns
               /\ last.status = "returned" => BuiltFromThisCall

\* C10, amended: every process_query call that returns a response has called
\* retrieve once and then generate_answer once on a RAG tool, generate_answer
\* once on a PROMPT tool, and the response is made of what these calls
\* returned; a call that raises has made an initial part of these calls.
C10_NoCaching ==
    IsQuery => /\ last.status = "returned" => Fns = ExpectedFns /\ BuiltFromThisCall
               /\ last.status = "raised" =>
                    /\ Len(Fns) <= Len(ExpectedFns)
                    /\ Fns = SubSeq(ExpectedFns, 1, Len(Fns))

\* the same query asked twice in a row, answered differently
C10_Witness ==
    /\ IsQuery /\ last.status = "returned" /\ tool_kind = "RAG"
    /\ prev # None
    /\ prev[1].query = last.query[1]
    /\ prev[1].answer # last.ret[1].answer

====
